---- MODULE Spec2Model ----
(***************************************************************************)
(* Model of the HighPerfOrderBook matching engine (include/order_book.h,   *)
(* include/order_types.h).  A side book is a std::map from price to        *)
(* PriceLevel, modelled as a function whose domain is the set of prices    *)
(* present; iteration order is ascending key order, as in std::map.        *)
(* Every public call holds the book mutex for its whole body, so in the    *)
(* sequential specification each call is one atomic action.                *)
(*                                                                         *)
(* Specifications:                                                         *)
(*   Spec       the public API called sequentially, one action per call    *)
(*   LockSpec   the public API called by several threads, one action per   *)
(*              step a thread takes while it holds mutex_                  *)
(*   RingSpec   LockFreeQueue (include/lock_free_queue.h), called          *)
(*              sequentially                                               *)
(*   ConcurrentRingSpec  LockFreeQueue called by several threads, one      *)
(*              action per atomic access                                   *)
(*   BatchSpec  BatchOperations::process_quantity_updates on drawn inputs  *)
(*   SlotSpec   the slot index ticket & BUFFER_MASK on drawn tickets      *)
(*   ArithSpec  one add_limit_order or one process_market_order on a level *)
(*              of drawn total_quantity, with a drawn quantity             *)
(***************************************************************************)
EXTENDS Integers, Sequences, FiniteSets, TLC

\* ---------------------------------------------------------------- bounds
MaxPrice == 2
MaxQty == 1
MaxOps == 3
WordBits == 3
\* LockSpec: threads, and the prices and quantities they call with
MaxThreads == 2
MaxLockPrice == 1
MaxLockOps == 3
\* RingSpec: ring capacity (template parameter N), bits of a sequence number
\* (64 in the code), records offered to the ring, calls made
N == 2
SeqBits == 3
MaxRecord == 2
MaxRingOps == 4
\* BatchSpec: prices of the levels handed to the updater, largest delta
MaxBatchPrice == 1
MaxDelta == 2
\* SlotSpec: largest ticket
MaxTicket == 127

\* ------------------------------------------------------ program constants
\* uint32_t and int32_t are modelled with WordBits bits instead of 32 (TLC
\* integers stop short of 2^32): unsigned values are taken modulo 2^WordBits,
\* and values at or above 2^(WordBits-1) are negative when reinterpreted as
\* signed.
UINT32_MOD == 2 ^ WordBits
INT32_SIGN == 2 ^ (WordBits - 1)
SIMD_WIDTH == 4

UINT32_MAX == UINT32_MOD - 1

BUY == "BUY"
SELL == "SELL"
Side == {BUY, SELL}

\* Inputs of the public API.  Prices include 0 (price is an unchecked
\* double); quantities include 0 and the largest uint32_t.
Prices == 0..MaxPrice
Quantities == (0..MaxQty) \cup {UINT32_MAX}
DepthArgs == 0..(MaxPrice + 2)

\* a null PriceLevel*; a level handle is <<side, price>>
NULL == <<>>
\* the end() iterator; an iterator at key p is <<p>>
END == <<>>

VARIABLES bids_, asks_, last, pre, added_to, matched_from, adds_at, nops,
          mutex_, pc, local, committed, returned, adds_done,
          incoming_orders_, ring_log, ring_pc, ring_local, batch, slot

book_vars == <<bids_, asks_, last, pre, added_to, matched_from, adds_at, nops>>
lock_vars == <<mutex_, pc, local, committed, returned, adds_done>>
ring_vars == <<incoming_orders_, ring_log, ring_pc, ring_local>>

vars == <<book_vars, lock_vars, ring_vars, batch, slot>>

\* ------------------------------------------------------------ value types
PriceLevel(price, total_quantity, order_count) ==
    [price |-> price, total_quantity |-> total_quantity, order_count |-> order_count]

MatchResult(quantity, price) == [quantity |-> quantity, price |-> price]

Order(side, price, quantity, type) ==
    [side |-> side, price |-> price, quantity |-> quantity, type |-> type]

\* conversions between uint32_t and int32_t (two's complement)
ToInt32(u) == IF (u % UINT32_MOD) >= INT32_SIGN THEN (u % UINT32_MOD) - UINT32_MOD
              ELSE u % UINT32_MOD

ToUint32(i) == i % UINT32_MOD

\* PriceLevel::update_quantity(int32_t delta)
update_quantity(level, delta) ==
    [level EXCEPT !.total_quantity = ToUint32(level.total_quantity + delta),
                  !.order_count = ToUint32(level.order_count + 1)]

\* ------------------------------------------------------- std::map helpers
EmptyMap == [p \in {} |-> PriceLevel(0, 0, 0)]

\* begin(): an iterator at the smallest key, or end()
map_begin(book) ==
    IF DOMAIN book = {} THEN END
    ELSE <<CHOOSE p \in DOMAIN book : \A q \in DOMAIN book : p <= q>>

\* ++it: an iterator at the smallest key above it, or end()
map_next(book, it) ==
    LET above == {q \in DOMAIN book : q > it[1]}
    IN IF above = {} THEN END
       ELSE <<CHOOSE p \in above : \A q \in above : p <= q>>

\* erase(it): the map without the key it points at
map_erase(book, it) == [p \in (DOMAIN book) \ {it[1]} |-> book[p]]

\* try_emplace(key, value): inserts only when the key is absent
try_emplace(book, price, level) ==
    IF price \in DOMAIN book THEN book
    ELSE [p \in (DOMAIN book) \cup {price} |-> IF p = price THEN level ELSE book[p]]

\* the two side books as one value, and a level handle (PriceLevel*) as <<side, price>>
Books(b, a) == [bids |-> b, asks |-> a]

BookOf(books, side) == IF side = BUY THEN books.bids ELSE books.asks

SetBook(books, side, book) ==
    IF side = BUY THEN [books EXCEPT !.bids = book] ELSE [books EXCEPT !.asks = book]

Deref(books, h) == BookOf(books, h[1])[h[2]]

StoreLevel(books, h, level) ==
    SetBook(books, h[1], [BookOf(books, h[1]) EXCEPT ![h[2]] = level])

\* ------------------------------------------------- batch quantity updater
\* BatchOperations::process_quantity_updates.  levels and deltas are
\* 4-element arrays (indexed from 1 here), levels holding handles or NULL.
\* Only lanes 1..count are modelled: the code loads the lanes at or above
\* count from local arrays it never initialised, adds to them in the vector
\* registers, and never stores them back to a level.
load_quantities(books, levels, count) ==
    [i \in 1..count |->
        IF levels[i] # NULL THEN Deref(books, levels[i]).total_quantity ELSE 0]

load_counts(books, levels, count) ==
    [i \in 1..count |->
        IF levels[i] # NULL THEN Deref(books, levels[i]).order_count ELSE 0]

\* q_vec = vaddq_u32(q_vec, vreinterpretq_u32_s32(d_vec)): lane-wise, modulo 2^32
add_deltas(quantities, deltas) ==
    [i \in DOMAIN quantities |-> (quantities[i] + ToUint32(deltas[i])) % UINT32_MOD]

\* mutant of add_ones: the counts are stored back without the increment
add_ones_forgotten(counts) == counts

\* c_vec = vaddq_u32(c_vec, one_vec)
add_ones(counts) ==
    [i \in DOMAIN counts |-> (counts[i] + 1) % UINT32_MOD]

\* the store loop, lanes i..count in order
RECURSIVE store_levels(_, _, _, _, _, _)
store_levels(books, levels, quantities, counts, i, count) ==
    IF i > count THEN books
    ELSE IF levels[i] # NULL
         THEN store_levels(
                  StoreLevel(books, levels[i],
                      [Deref(books, levels[i]) EXCEPT !.total_quantity = quantities[i],
                                                      !.order_count = counts[i]]),
                  levels, quantities, counts, i + 1, count)
         ELSE store_levels(books, levels, quantities, counts, i + 1, count)

process_quantity_updates(books, levels, deltas, count) ==
    LET quantities == load_quantities(books, levels, count)
        counts == load_counts(books, levels, count)
    IN store_levels(books, levels, add_deltas(quantities, deltas), add_ones(counts),
                    1, count)

\* ------------------------------------------------------ limit order path
\* OrderBook::process_limit_orders_batch: the loop over orders from index i,
\* with the local arrays levels/deltas and batch_size, then the final flush.
RECURSIVE batch_loop(_, _, _, _, _, _)
batch_loop(books, orders, i, levels, deltas, batch_size) ==
    IF i > Len(orders)
    THEN (IF batch_size > 0
          THEN process_quantity_updates(books, levels, deltas, batch_size)
          ELSE books)
    ELSE LET order == orders[i]
             emplaced == SetBook(books, order.side,
                             try_emplace(BookOf(books, order.side), order.price,
                                         PriceLevel(order.price, 0, 0)))
             levels1 == [levels EXCEPT ![batch_size + 1] = <<order.side, order.price>>]
             deltas1 == [deltas EXCEPT ![batch_size + 1] = ToInt32(order.quantity)]
         IN IF batch_size + 1 = SIMD_WIDTH
            THEN batch_loop(
                     process_quantity_updates(emplaced, levels1, deltas1, SIMD_WIDTH),
                     orders, i + 1, levels1, deltas1, 0)
            ELSE batch_loop(emplaced, orders, i + 1, levels1, deltas1, batch_size + 1)

process_limit_orders_batch(books, orders) ==
    batch_loop(books, orders, 1,
               [i \in 1..SIMD_WIDTH |-> NULL], [i \in 1..SIMD_WIDTH |-> 0], 0)

\* ----------------------------------------------------- market order path
std_min(a, b) == IF b < a THEN b ELSE a

\* mutant of matched_quantity: takes the whole level whatever remains of the order
matched_quantity_ignores_remaining(remaining, level) == level.total_quantity

\* uint32_t matched = std::min(remaining, level.total_quantity)
matched_quantity(remaining, level) == std_min(remaining, level.total_quantity)

\* mutant of negated_delta: the minus sign is lost, a fill adds to the level
negated_delta_unsigned(matched) == ToInt32(matched)

\* -static_cast<int32_t>(matched).  For matched = INT32_SIGN the negation
\* overflows int, which C++ leaves undefined; no call of Spec produces that
\* fill (NoFillAtSignBit), and the operator then gives the wrapped value.
negated_delta(matched) == ToInt32(-ToInt32(matched))

\* the loop of OrderBook::match_market_order_simd, from iterator it
RECURSIVE match_loop(_, _, _, _)
match_loop(book, it, remaining, matches) ==
    IF it = END \/ remaining = 0
    THEN [book |-> book, matches |-> matches]
    ELSE LET level == book[it[1]]
             matched == matched_quantity(remaining, level)
             level1 == IF matched > 0
                       THEN update_quantity(level, negated_delta(matched))
                       ELSE level
             matches1 == IF matched > 0
                         THEN Append(matches, MatchResult(matched, level.price))
                         ELSE matches
             remaining1 == IF matched > 0
                           THEN ToUint32(remaining - matched)
                           ELSE remaining
             updated == [book EXCEPT ![it[1]] = level1]
         IN IF level1.total_quantity = 0
            THEN match_loop(map_erase(updated, it), map_next(updated, it),
                            remaining1, matches1)
            ELSE match_loop(updated, map_next(updated, it), remaining1, matches1)

\* mutant of opposing_side: a market order consumes its own side
opposing_side_same(side) == side

\* the opposing book of a market order: asks_ for BUY, bids_ for SELL
opposing_side(side) == IF side = BUY THEN SELL ELSE BUY

\* OrderBook::match_market_order_simd: the new books and the returned matches
match_market_order_simd(books, order) ==
    LET book == BookOf(books, opposing_side(order.side))
        done == match_loop(book, map_begin(book), order.quantity, <<>>)
    IN [books |-> SetBook(books, opposing_side(order.side), done.book),
        matches |-> done.matches]

\* ------------------------------------------------------------- observers
\* std::max_element / std::min_element over [it, end) with the keys compared
\* by <, best being the iterator kept so far
\* mutant of max_element: the comparison is reversed, the smallest key wins
RECURSIVE max_element_reversed(_, _, _)
max_element_reversed(book, it, best) ==
    IF it = END THEN best
    ELSE max_element_reversed(book, map_next(book, it),
                              IF it[1] < best[1] THEN it ELSE best)

RECURSIVE max_element(_, _, _)
max_element(book, it, best) ==
    IF it = END THEN best
    ELSE max_element(book, map_next(book, it), IF best[1] < it[1] THEN it ELSE best)

RECURSIVE min_element(_, _, _)
min_element(book, it, best) ==
    IF it = END THEN best
    ELSE min_element(book, map_next(book, it), IF it[1] < best[1] THEN it ELSE best)

get_best_bid(bids) ==
    IF DOMAIN bids = {} THEN 0
    ELSE max_element(bids, map_next(bids, map_begin(bids)), map_begin(bids))[1]

get_best_ask(asks) ==
    IF DOMAIN asks = {} THEN 0
    ELSE min_element(asks, map_next(asks, map_begin(asks)), map_begin(asks))[1]

get_best_prices_result(books) == <<get_best_bid(books.bids), get_best_ask(books.asks)>>

\* sorted_levels(book.begin(), book.end()): the (key, level) pairs in map order
RECURSIVE to_vector(_, _)
to_vector(book, it) ==
    IF it = END THEN <<>>
    ELSE <<(<<it[1], book[it[1]]>>)>> \o to_vector(book, map_next(book, it))

\* mutant of depth_before: both sides sorted ascending
depth_before_ascending(side, a, b) == a[1] < b[1]

\* the comparator get_depth gives std::sort: descending keys for BUY,
\* ascending keys for SELL
depth_before(side, a, b) == IF side = BUY THEN a[1] > b[1] ELSE a[1] < b[1]

\* std::sort with that comparator (insertion of x into a sorted vector, then
\* the sort as repeated insertion)
RECURSIVE sorted_insert(_, _, _)
sorted_insert(side, sorted, x) ==
    IF sorted = <<>> THEN <<x>>
    ELSE IF depth_before(side, x, Head(sorted)) THEN <<x>> \o sorted
         ELSE <<Head(sorted)>> \o sorted_insert(side, Tail(sorted), x)

RECURSIVE std_sort(_, _)
std_sort(side, v) ==
    IF v = <<>> THEN <<>>
    ELSE sorted_insert(side, std_sort(side, Tail(v)), Head(v))

\* OrderBook::get_depth: the first min(levels, size) levels of the sorted vector
get_depth_result(books, side, levels) ==
    LET sorted_levels == std_sort(side, to_vector(BookOf(books, side),
                                                  map_begin(BookOf(books, side))))
        n == std_min(levels, Len(sorted_levels))
    IN [i \in 1..n |-> sorted_levels[i][2]]
\* ----------------------------------------------------------- LockFreeQueue
\* uint64_t sequence numbers and tickets are modelled with SeqBits bits
UINT64_MOD == 2 ^ SeqBits

\* EMPTY_SEQUENCE = ~0ULL
EMPTY_SEQUENCE == UINT64_MOD - 1

\* a & b on non-negative integers, bit by bit
RECURSIVE BitAnd(_, _)
BitAnd(a, b) ==
    IF a = 0 \/ b = 0 THEN 0
    ELSE (a % 2) * (b % 2) + 2 * BitAnd(a \div 2, b \div 2)

\* BUFFER_MASK = N - 1 of a ring of capacity n
BUFFER_MASK(n) == n - 1

\* the records offered to the ring, and the value of a value-initialised T
Records == 1..MaxRecord
NoRecord == 0

\* std::nullopt; a returned record r is <<r>>
nullopt == <<>>

Node(data, sequence) == [data |-> data, sequence |-> sequence]

\* LockFreeQueue::LockFreeQueue(): head_ and tail_ are 0, buffer_ has N nodes
\* and the constructor stores EMPTY_SEQUENCE in every node's sequence
LockFreeQueue ==
    [head_ |-> 0, tail_ |-> 0,
     buffer_ |-> [i \in 0..(N - 1) |-> Node(NoRecord, EMPTY_SEQUENCE)]]

\* LockFreeQueue::try_enqueue called with no other call running (the
\* compare_exchange_strong on tail_ then finds the value just loaded)
try_enqueue(queue, data) ==
    LET tail == queue.tail_
        index == BitAnd(tail, BUFFER_MASK(N))
        seq == queue.buffer_[index].sequence
    IN IF seq = tail
       THEN [queue |-> [queue EXCEPT
                           !.tail_ = (tail + 1) % UINT64_MOD,
                           !.buffer_[index] = Node(data, (tail + 1) % UINT64_MOD)],
             ok |-> TRUE]
       ELSE [queue |-> queue, ok |-> FALSE]

\* LockFreeQueue::try_dequeue called with no other call running
try_dequeue(queue) ==
    LET head == queue.head_
        index == BitAnd(head, BUFFER_MASK(N))
        node == queue.buffer_[index]
    IN IF node.sequence = (head + 1) % UINT64_MOD
       THEN [queue |-> [queue EXCEPT
                           !.head_ = (head + 1) % UINT64_MOD,
                           !.buffer_[index] = Node(node.data, (head + N) % UINT64_MOD)],
             value |-> <<node.data>>]
       ELSE [queue |-> queue, value |-> nullopt]

\* ------------------------------------------------------- std::shared_mutex
\* mutex_ records the threads that hold it: writers (std::unique_lock) and
\* readers (std::shared_lock)
Threads == 1..MaxThreads

Unlocked == [writers |-> {}, readers |-> {}]

\* mutant of can_lock: a writer does not wait for another writer
can_lock_ignores_writers(mutex) == mutex.readers = {}

\* std::unique_lock lock(mutex_) returns only when no thread holds the mutex
can_lock(mutex) == mutex.writers = {} /\ mutex.readers = {}

\* mutant of can_lock_shared: a reader does not wait for a writer
can_lock_shared_ignores_writers(mutex) == TRUE

\* std::shared_lock lock(mutex_) returns only when no writer holds the mutex
can_lock_shared(mutex) == mutex.writers = {}

\* ------------------------------------------------------------ the machine
\* bids_, asks_ : the two side books (OrderBook::bids_, OrderBook::asks_)
\* last         : the last completed call, its arguments and what it returned
\* pre          : the side books as they were when that call started
\* added_to     : per side, the sum of the quantities of all limit orders added
\* matched_from : per side, the sum of the fill quantities taken from it
\* adds_at      : per side and price, the add_limit_order calls made there
\*                since the level present now was created (0 when absent)
\* nops         : the number of calls made (bounded by MaxOps)
NoCall ==
    [op |-> "none", side |-> BUY, price |-> 0, quantity |-> 0,
     ok |-> FALSE, matches |-> <<>>, best |-> <<0, 0>>, depth |-> <<>>]

CurrentBooks == Books(bids_, asks_)

RECURSIVE SumQuantity(_)
SumQuantity(matches) ==
    IF matches = <<>> THEN 0 ELSE Head(matches).quantity + SumQuantity(Tail(matches))

\* the variables of LockSpec besides bids_, asks_ and nops
\* mutex_    : the threads holding OrderBook::mutex_
\* pc        : per thread, the step of its call it takes next ("idle": no call)
\* local     : per thread, the arguments and local variables of its call
\* committed : the side books as the last writer left them when it unlocked
\* returned  : the call that returned last, its arguments and what it returned;
\*             seen is the value committed had when the call took the lock
\* adds_done : what a run of adds and reads has added: per side and price,
\*             the sum of the quantities and the number of the add_limit_order
\*             calls made; by_first: thread 1 made one of them, by_other:
\*             another thread did; market: a market order has run, which
\*             ends the record (it is cleared for good)
\* the variables of RingSpec
\* incoming_orders_ : the ring (OrderBook::incoming_orders_)
\* ring_log         : the calls made on it, each with what it returned
\* ring_pc          : ConcurrentRingSpec, per thread, the step of its call on
\*                    the ring it takes next ("idle": no call)
\* ring_local       : ConcurrentRingSpec, per thread, the locals of that call
\* batch : BatchSpec, the drawn inputs of the updater and its outcome;
\*         ArithSpec, the drawn level (before), the drawn order and the
\*         outcome of the call (books, matches)
\* slot  : SlotSpec, the drawn ticket and the slot index computed from it
LockPrices == 0..MaxLockPrice

NoLocal ==
    [op |-> "none", side |-> BUY, price |-> 0, quantity |-> 0,
     handle |-> NULL, loaded_quantity |-> 0, loaded_count |-> 0,
     it |-> END, remaining |-> 0, matches |-> <<>>, best_bid |-> 0,
     seen |-> Books(EmptyMap, EmptyMap)]

NoReturn ==
    [op |-> "none", side |-> BUY, price |-> 0, quantity |-> 0,
     ok |-> FALSE, matches |-> <<>>, best |-> <<0, 0>>, depth |-> <<>>,
     seen |-> Books(EmptyMap, EmptyMap)]

NoBatch ==
    [call |-> "none", levels |-> <<>>, deltas |-> <<>>, count |-> 0, orders |-> <<>>,
     before |-> Books(EmptyMap, EmptyMap), matches |-> <<>>,
     books |-> Books(EmptyMap, EmptyMap), done |-> FALSE]

NoSlot == [ticket |-> 0, index |-> 0, done |-> FALSE]

NoAdds ==
    [sum |-> [s \in Side |-> [p \in LockPrices |-> 0]],
     count |-> [s \in Side |-> [p \in LockPrices |-> 0]],
     by_first |-> FALSE, by_other |-> FALSE, market |-> FALSE]

BookInit ==
    /\ bids_ = EmptyMap
    /\ asks_ = EmptyMap
    /\ last = NoCall
    /\ pre = Books(EmptyMap, EmptyMap)
    /\ added_to = [s \in Side |-> 0]
    /\ matched_from = [s \in Side |-> 0]
    /\ adds_at = [s \in Side |-> [p \in Prices |-> 0]]
    /\ nops = 0

LockInit ==
    /\ mutex_ = Unlocked
    /\ pc = [t \in Threads |-> "idle"]
    /\ local = [t \in Threads |-> NoLocal]
    /\ committed = Books(EmptyMap, EmptyMap)
    /\ returned = NoReturn
    /\ adds_done = NoAdds

NoRingLocal == [data |-> NoRecord, ticket |-> 0, seq |-> 0]

RingInit ==
    /\ incoming_orders_ = LockFreeQueue
    /\ ring_log = <<>>
    /\ ring_pc = [t \in Threads |-> "idle"]
    /\ ring_local = [t \in Threads |-> NoRingLocal]

\* the state after OrderBook's construction
Init ==
    /\ BookInit
    /\ LockInit
    /\ RingInit
    /\ batch = NoBatch
    /\ slot = NoSlot

\* OrderBook::add_limit_order(side, price, quantity, id): builds the order,
\* runs a one-element batch under the writer lock and returns true
add_limit_order(side, price, quantity) ==
    /\ nops < MaxOps
    /\ LET order == Order(side, price, quantity, "LIMIT")
           after == process_limit_orders_batch(CurrentBooks, <<order>>)
       IN /\ bids_' = after.bids
          /\ asks_' = after.asks
          /\ last' = [NoCall EXCEPT !.op = "add_limit_order", !.side = side,
                                    !.price = price, !.quantity = quantity,
                                    !.ok = TRUE]
    /\ pre' = CurrentBooks
    /\ added_to' = [added_to EXCEPT ![side] = @ + quantity]
    /\ adds_at' = [adds_at EXCEPT ![side][price] = @ + 1]
    /\ nops' = nops + 1
    /\ UNCHANGED matched_from
    /\ UNCHANGED <<lock_vars, ring_vars, batch, slot>>

\* OrderBook::process_market_order(side, quantity, id): builds the order with
\* price 0 and returns match_market_order_simd(order)
process_market_order(side, quantity) ==
    /\ nops < MaxOps
    /\ LET order == Order(side, 0, quantity, "MARKET")
           result == match_market_order_simd(CurrentBooks, order)
           opp == opposing_side(side)
       IN /\ bids_' = result.books.bids
          /\ asks_' = result.books.asks
          /\ last' = [NoCall EXCEPT !.op = "process_market_order", !.side = side,
                                    !.quantity = quantity,
                                    !.matches = result.matches]
          /\ matched_from' = [matched_from EXCEPT
                                 ![opp] = @ + SumQuantity(result.matches)]
          /\ adds_at' = [adds_at EXCEPT
                            ![opp] = [p \in Prices |->
                                         IF p \in DOMAIN BookOf(result.books, opp)
                                         THEN adds_at[opp][p] ELSE 0]]
    /\ pre' = CurrentBooks
    /\ nops' = nops + 1
    /\ UNCHANGED added_to
    /\ UNCHANGED <<lock_vars, ring_vars, batch, slot>>

\* OrderBook::get_best_prices() under the shared lock
get_best_prices ==
    /\ nops < MaxOps
    /\ last' = [NoCall EXCEPT !.op = "get_best_prices",
                              !.best = get_best_prices_result(CurrentBooks)]
    /\ pre' = CurrentBooks
    /\ nops' = nops + 1
    /\ UNCHANGED <<bids_, asks_, added_to, matched_from, adds_at>>
    /\ UNCHANGED <<lock_vars, ring_vars, batch, slot>>

\* OrderBook::get_depth(side, levels) under the shared lock
get_depth(side, levels) ==
    /\ nops < MaxOps
    /\ last' = [NoCall EXCEPT !.op = "get_depth", !.side = side,
                              !.quantity = levels,
                              !.depth = get_depth_result(CurrentBooks, side, levels)]
    /\ pre' = CurrentBooks
    /\ nops' = nops + 1
    /\ UNCHANGED <<bids_, asks_, added_to, matched_from, adds_at>>
    /\ UNCHANGED <<lock_vars, ring_vars, batch, slot>>

Next ==
    \/ \E side \in Side, price \in Prices, quantity \in Quantities :
           add_limit_order(side, price, quantity)
    \/ \E side \in Side, quantity \in Quantities : process_market_order(side, quantity)
    \/ get_best_prices
    \/ \E side \in Side, levels \in DepthArgs : get_depth(side, levels)

Spec == Init /\ [][Next]_vars
\* no market call of Spec fills exactly INT32_SIGN at a level, the one value
\* for which negated_delta is undefined in the code
NoFillAtSignBit ==
    \A i \in 1..Len(last.matches) : last.matches[i].quantity # INT32_SIGN

\* ------------------------------------------------------------- RingSpec
\* One thread calls try_enqueue and try_dequeue on the ring, one call at a
\* time; every call is logged with what it returned.
Enqueue(data) ==
    /\ Len(ring_log) < MaxRingOps
    /\ LET r == try_enqueue(incoming_orders_, data)
       IN /\ incoming_orders_' = r.queue
          /\ ring_log' = Append(ring_log,
                 [op |-> "try_enqueue", data |-> data, ok |-> r.ok, value |-> nullopt])
    /\ UNCHANGED <<book_vars, lock_vars, ring_pc, ring_local, batch, slot>>

Dequeue ==
    /\ Len(ring_log) < MaxRingOps
    /\ LET r == try_dequeue(incoming_orders_)
       IN /\ incoming_orders_' = r.queue
          /\ ring_log' = Append(ring_log,
                 [op |-> "try_dequeue", data |-> NoRecord,
                  ok |-> r.value # nullopt, value |-> r.value])
    /\ UNCHANGED <<book_vars, lock_vars, ring_pc, ring_local, batch, slot>>

RingNext ==
    \/ \E data \in Records : Enqueue(data)
    \/ Dequeue

RingSpec == Init /\ [][RingNext]_vars

\* no call ever changes the ring: every node keeps the sequence the
\* constructor stored, which no ticket reaches, so no call gets past its
\* sequence test
RingNeverChanges == incoming_orders_ = LockFreeQueue

\* no call on the ring ever succeeds
RingNeverAccepts == \A i \in 1..Len(ring_log) : ~ring_log[i].ok


\* ---------------------------------------------------- ConcurrentRingSpec
\* Threads call try_enqueue and try_dequeue concurrently; every action is one
\* access of a thread to the ring.  A call is logged when it returns.
ring_frame == <<book_vars, lock_vars, batch, slot>>

RingLogged(op, data, ok, value) ==
    Append(ring_log, [op |-> op, data |-> data, ok |-> ok, value |-> value])

\* try_enqueue: uint64_t tail = tail_.load()
enq_load_tail(t, data) ==
    /\ ring_pc[t] = "idle"
    /\ Len(ring_log) + Cardinality({u \in Threads : ring_pc[u] # "idle"}) < MaxRingOps
    /\ ring_local' = [ring_local EXCEPT
                         ![t] = [NoRingLocal EXCEPT !.data = data,
                                                    !.ticket = incoming_orders_.tail_]]
    /\ ring_pc' = [ring_pc EXCEPT ![t] = "enq_load_seq"]
    /\ UNCHANGED <<incoming_orders_, ring_log, ring_frame>>

\* uint64_t seq = node.sequence.load()
enq_load_seq(t) ==
    /\ ring_pc[t] = "enq_load_seq"
    /\ ring_local' = [ring_local EXCEPT ![t].seq =
           incoming_orders_.buffer_[BitAnd(ring_local[t].ticket, BUFFER_MASK(N))].sequence]
    /\ ring_pc' = [ring_pc EXCEPT ![t] = "enq_cas"]
    /\ UNCHANGED <<incoming_orders_, ring_log, ring_frame>>

\* if (seq == tail) { if (tail_.compare_exchange_strong(tail, tail + 1)) ...
\* } return false
enq_cas(t) ==
    /\ ring_pc[t] = "enq_cas"
    /\ IF ring_local[t].seq = ring_local[t].ticket
          /\ incoming_orders_.tail_ = ring_local[t].ticket
       THEN /\ incoming_orders_' = [incoming_orders_ EXCEPT
                                       !.tail_ = (ring_local[t].ticket + 1) % UINT64_MOD]
            /\ ring_pc' = [ring_pc EXCEPT ![t] = "enq_data"]
            /\ UNCHANGED <<ring_log, ring_local>>
       ELSE /\ ring_log' = RingLogged("try_enqueue", ring_local[t].data, FALSE, nullopt)
            /\ ring_pc' = [ring_pc EXCEPT ![t] = "idle"]
            /\ ring_local' = [ring_local EXCEPT ![t] = NoRingLocal]
            /\ UNCHANGED incoming_orders_
    /\ UNCHANGED ring_frame

\* node.data = data
enq_data(t) ==
    /\ ring_pc[t] = "enq_data"
    /\ incoming_orders_' = [incoming_orders_ EXCEPT
           !.buffer_[BitAnd(ring_local[t].ticket, BUFFER_MASK(N))].data = ring_local[t].data]
    /\ ring_pc' = [ring_pc EXCEPT ![t] = "enq_publish"]
    /\ UNCHANGED <<ring_log, ring_local, ring_frame>>

\* node.sequence.store(tail + 1); return true
enq_publish(t) ==
    /\ ring_pc[t] = "enq_publish"
    /\ incoming_orders_' = [incoming_orders_ EXCEPT
           !.buffer_[BitAnd(ring_local[t].ticket, BUFFER_MASK(N))].sequence =
               (ring_local[t].ticket + 1) % UINT64_MOD]
    /\ ring_log' = RingLogged("try_enqueue", ring_local[t].data, TRUE, nullopt)
    /\ ring_pc' = [ring_pc EXCEPT ![t] = "idle"]
    /\ ring_local' = [ring_local EXCEPT ![t] = NoRingLocal]
    /\ UNCHANGED ring_frame

\* try_dequeue: uint64_t head = head_.load()
deq_load_head(t) ==
    /\ ring_pc[t] = "idle"
    /\ Len(ring_log) + Cardinality({u \in Threads : ring_pc[u] # "idle"}) < MaxRingOps
    /\ ring_local' = [ring_local EXCEPT
                         ![t] = [NoRingLocal EXCEPT !.ticket = incoming_orders_.head_]]
    /\ ring_pc' = [ring_pc EXCEPT ![t] = "deq_load_seq"]
    /\ UNCHANGED <<incoming_orders_, ring_log, ring_frame>>

\* uint64_t seq = node.sequence.load()
deq_load_seq(t) ==
    /\ ring_pc[t] = "deq_load_seq"
    /\ ring_local' = [ring_local EXCEPT ![t].seq =
           incoming_orders_.buffer_[BitAnd(ring_local[t].ticket, BUFFER_MASK(N))].sequence]
    /\ ring_pc' = [ring_pc EXCEPT ![t] = "deq_cas"]
    /\ UNCHANGED <<incoming_orders_, ring_log, ring_frame>>

\* if (seq == head + 1) { if (head_.compare_exchange_strong(head, head + 1))
\* ... } return std::nullopt
deq_cas(t) ==
    /\ ring_pc[t] = "deq_cas"
    /\ IF ring_local[t].seq = (ring_local[t].ticket + 1) % UINT64_MOD
          /\ incoming_orders_.head_ = ring_local[t].ticket
       THEN /\ incoming_orders_' = [incoming_orders_ EXCEPT
                                       !.head_ = (ring_local[t].ticket + 1) % UINT64_MOD]
            /\ ring_pc' = [ring_pc EXCEPT ![t] = "deq_data"]
            /\ UNCHANGED <<ring_log, ring_local>>
       ELSE /\ ring_log' = RingLogged("try_dequeue", NoRecord, FALSE, nullopt)
            /\ ring_pc' = [ring_pc EXCEPT ![t] = "idle"]
            /\ ring_local' = [ring_local EXCEPT ![t] = NoRingLocal]
            /\ UNCHANGED incoming_orders_
    /\ UNCHANGED ring_frame

\* T result = node.data
deq_data(t) ==
    /\ ring_pc[t] = "deq_data"
    /\ ring_local' = [ring_local EXCEPT ![t].data =
           incoming_orders_.buffer_[BitAnd(ring_local[t].ticket, BUFFER_MASK(N))].data]
    /\ ring_pc' = [ring_pc EXCEPT ![t] = "deq_release"]
    /\ UNCHANGED <<incoming_orders_, ring_log, ring_frame>>

\* node.sequence.store(head + N); return result
deq_release(t) ==
    /\ ring_pc[t] = "deq_release"
    /\ incoming_orders_' = [incoming_orders_ EXCEPT
           !.buffer_[BitAnd(ring_local[t].ticket, BUFFER_MASK(N))].sequence =
               (ring_local[t].ticket + N) % UINT64_MOD]
    /\ ring_log' = RingLogged("try_dequeue", NoRecord, TRUE, <<ring_local[t].data>>)
    /\ ring_pc' = [ring_pc EXCEPT ![t] = "idle"]
    /\ ring_local' = [ring_local EXCEPT ![t] = NoRingLocal]
    /\ UNCHANGED ring_frame

ConcurrentRingNext ==
    \E t \in Threads :
        \/ \E data \in Records : enq_load_tail(t, data)
        \/ enq_load_seq(t)
        \/ enq_cas(t)
        \/ enq_data(t)
        \/ enq_publish(t)
        \/ deq_load_head(t)
        \/ deq_load_seq(t)
        \/ deq_cas(t)
        \/ deq_data(t)
        \/ deq_release(t)

ConcurrentRingSpec == Init /\ [][ConcurrentRingNext]_vars

\* in ConcurrentRingSpec too no call gets past its sequence test: no thread
\* ever holds a ticket it won by compare_exchange_strong
RingNeverClaimed ==
    \A t \in Threads :
        ring_pc[t] \notin {"enq_data", "enq_publish", "deq_data", "deq_release"}

\* ------------------------------------------------------------- BatchSpec
\* The batch updater and the batch path as functions of their arguments: Init
\* draws the arguments, the one call made applies the function to them.
BatchPrices == 0..MaxBatchPrice

\* the level handles a caller can pass: null, or a level of the book
BatchHandles == {NULL} \cup {<<BUY, p>> : p \in BatchPrices}

Deltas == 1..MaxDelta

\* the book the drawn handles point into: a bid level at every batch price
BatchBooks ==
    Books([p \in BatchPrices |-> PriceLevel(p, p, p)], EmptyMap)

BatchOrders == {Order(BUY, p, q, "LIMIT") : p \in BatchPrices, q \in Deltas}

\* all sequences over S of length n
RECURSIVE SeqsOfLen(_, _)
SeqsOfLen(S, n) ==
    IF n = 0 THEN {<<>>}
    ELSE {Append(seq, x) : seq \in SeqsOfLen(S, n - 1), x \in S}

BatchInit ==
    /\ BookInit
    /\ LockInit
    /\ RingInit
    /\ slot = NoSlot
    /\ \/ \E levels \in [1..SIMD_WIDTH -> BatchHandles],
             deltas \in [1..SIMD_WIDTH -> Deltas],
             count \in 0..SIMD_WIDTH :
              batch = [NoBatch EXCEPT !.call = "process_quantity_updates",
                                      !.levels = levels, !.deltas = deltas,
                                      !.count = count, !.books = BatchBooks]
       \/ \E n \in 0..(SIMD_WIDTH + 1) : \E orders \in SeqsOfLen(BatchOrders, n) :
              batch = [NoBatch EXCEPT !.call = "process_limit_orders_batch",
                                      !.orders = orders]

\* BatchOperations::process_quantity_updates(levels, deltas, count)
UpdateQuantities ==
    /\ batch.call = "process_quantity_updates"
    /\ ~batch.done
    /\ batch' = [batch EXCEPT
                    !.books = process_quantity_updates(batch.books, batch.levels,
                                                       batch.deltas, batch.count),
                    !.done = TRUE]
    /\ UNCHANGED <<book_vars, lock_vars, ring_vars, slot>>

\* OrderBook::process_limit_orders_batch(orders) on an empty book
ProcessBatch ==
    /\ batch.call = "process_limit_orders_batch"
    /\ ~batch.done
    /\ batch' = [batch EXCEPT
                    !.books = process_limit_orders_batch(batch.books, batch.orders),
                    !.done = TRUE]
    /\ UNCHANGED <<book_vars, lock_vars, ring_vars, slot>>

BatchNext == UpdateQuantities \/ ProcessBatch

BatchSpec == BatchInit /\ [][BatchNext]_vars


\* -------------------------------------------------------------- SlotSpec
\* The slot index of the engine's ring, LockFreeQueue<Order, MAX_ORDERS>, as
\* a function of the ticket: Init draws the ticket (the value try_enqueue
\* loads from tail_, try_dequeue from head_), the one step computes the index
\* ticket & BUFFER_MASK of the node the call inspects.
MAX_ORDERS == 1000000

Tickets == 0..MaxTicket

SlotInit ==
    /\ BookInit
    /\ LockInit
    /\ RingInit
    /\ batch = NoBatch
    /\ \E ticket \in Tickets : slot = [NoSlot EXCEPT !.ticket = ticket]

\* Node& node = buffer_[ticket & BUFFER_MASK]
IndexSlot ==
    /\ ~slot.done
    /\ slot' = [slot EXCEPT !.index = BitAnd(slot.ticket, BUFFER_MASK(MAX_ORDERS)),
                            !.done = TRUE]
    /\ UNCHANGED <<book_vars, lock_vars, ring_vars, batch>>

SlotNext == IndexSlot

SlotSpec == SlotInit /\ [][SlotNext]_vars

\* ------------------------------------------------------------- ArithSpec
\* The arithmetic of one call on one level, over the whole range of uint32_t:
\* Init draws the level's total_quantity (or no level) and the order's
\* quantity, the one call made is add_limit_order at the level's price or
\* process_market_order against it.
ArithPrice == 1

Uint32Values == 0..UINT32_MAX

Int32Values == (-INT32_SIGN)..(INT32_SIGN - 1)

\* the bid book holding one level of the given total_quantity
OneLevel(total_quantity) ==
    Books([p \in {ArithPrice} |-> PriceLevel(ArithPrice, total_quantity, 1)], EmptyMap)

ArithInit ==
    /\ BookInit
    /\ LockInit
    /\ RingInit
    /\ slot = NoSlot
    /\ \/ \E before \in {Books(EmptyMap, EmptyMap)}
                            \cup {OneLevel(total) : total \in Uint32Values},
             quantity \in Uint32Values :
              batch = [NoBatch EXCEPT
                          !.call = "add_limit_order", !.before = before,
                          !.orders = <<Order(BUY, ArithPrice, quantity, "LIMIT")>>]
       \/ \E total \in Uint32Values, quantity \in Uint32Values :
              batch = [NoBatch EXCEPT
                          !.call = "process_market_order", !.before = OneLevel(total),
                          !.orders = <<Order(SELL, 0, quantity, "MARKET")>>]

\* OrderBook::add_limit_order on the drawn book
ArithAdd ==
    /\ batch.call = "add_limit_order"
    /\ ~batch.done
    /\ batch' = [batch EXCEPT
                    !.books = process_limit_orders_batch(batch.before, batch.orders),
                    !.done = TRUE]
    /\ UNCHANGED <<book_vars, lock_vars, ring_vars, slot>>

\* OrderBook::process_market_order on the drawn book.  When the fill is
\* exactly INT32_SIGN, -static_cast<int32_t>(matched) negates the smallest
\* int, a signed overflow the language leaves undefined: update_quantity is
\* then called with any delta, and the rest of the loop body (the erase test)
\* runs on what that leaves.
ArithFill ==
    /\ batch.call = "process_market_order"
    /\ ~batch.done
    /\ LET order == batch.orders[1]
           level == batch.before.bids[ArithPrice]
           matched == matched_quantity(order.quantity, level)
       IN IF matched = INT32_SIGN
          THEN \E delta \in Int32Values :
                   LET level1 == update_quantity(level, delta)
                   IN batch' = [batch EXCEPT
                          !.books = IF level1.total_quantity = 0
                                    THEN Books(EmptyMap, EmptyMap)
                                    ELSE Books([p \in {ArithPrice} |-> level1], EmptyMap),
                          !.matches = <<MatchResult(matched, level.price)>>,
                          !.done = TRUE]
          ELSE LET result == match_market_order_simd(batch.before, order)
               IN batch' = [batch EXCEPT !.books = result.books,
                                         !.matches = result.matches,
                                         !.done = TRUE]
    /\ UNCHANGED <<book_vars, lock_vars, ring_vars, slot>>

ArithNext == ArithAdd \/ ArithFill

ArithSpec == ArithInit /\ [][ArithNext]_vars



\* -------------------------------------------------------------- LockSpec
\* Threads call the public API concurrently.  A call takes mutex_ as its
\* first step (std::unique_lock in the writers, std::shared_lock in the
\* readers) and releases it as its last, when the lock object goes out of
\* scope; in between, every step below is one access of a thread to the side
\* books.  A thread blocked on the mutex is a thread whose lock step is not
\* enabled.
\* get_depth is called for one level and for as many levels as there are prices
LockDepthArgs == {1, MaxLockPrice + 1}

\* the quantities threads call with: one unit, and the largest uint32_t
LockQuantities == {1, UINT32_MAX}

\* the variables no step of LockSpec touches
lock_frame == <<last, pre, added_to, matched_from, adds_at, ring_vars, batch, slot>>

\* the level a handle points at is in the book
Present(books, h) == h # NULL /\ h[2] \in DOMAIN BookOf(books, h[1])

\* the thread of the running sweep's iterator as a level handle
IteratorHandle(t) ==
    IF local[t].it = END THEN NULL
    ELSE <<opposing_side(local[t].side), local[t].it[1]>>

\* a thread holding mutex_ releases it
unlock(mutex, t) == [writers |-> mutex.writers \ {t}, readers |-> mutex.readers \ {t}]

\* add_limit_order -> process_limit_orders_batch: std::unique_lock lock(mutex_)
add_lock(t, side, price, quantity) ==
    /\ pc[t] = "idle"
    /\ nops < MaxLockOps
    /\ can_lock(mutex_)
    /\ mutex_' = [mutex_ EXCEPT !.writers = @ \cup {t}]
    /\ local' = [local EXCEPT ![t] =
                    [NoLocal EXCEPT !.op = "add_limit_order", !.side = side,
                                    !.price = price, !.quantity = quantity,
                                    !.seen = committed]]
    /\ pc' = [pc EXCEPT ![t] = "add_emplace"]
    /\ nops' = nops + 1
    /\ UNCHANGED <<bids_, asks_, committed, returned, adds_done, lock_frame>>

\* book.try_emplace(order.price, PriceLevel{order.price, 0, 0, 0});
\* levels[0] = &(it->second); deltas[0] = order.quantity; batch_size = 1
add_emplace(t) ==
    /\ pc[t] = "add_emplace"
    /\ LET side == local[t].side
           after == SetBook(CurrentBooks, side,
                        try_emplace(BookOf(CurrentBooks, side), local[t].price,
                                    PriceLevel(local[t].price, 0, 0)))
       IN /\ bids_' = after.bids
          /\ asks_' = after.asks
          /\ local' = [local EXCEPT ![t].handle = <<side, local[t].price>>]
    /\ pc' = [pc EXCEPT ![t] = "add_load"]
    /\ UNCHANGED <<mutex_, committed, returned, adds_done, nops, lock_frame>>

\* process_quantity_updates(levels, deltas, 1): the load loop.  The level is
\* in the book whenever this step runs (NoDanglingHandle).
add_load(t) ==
    /\ pc[t] = "add_load"
    /\ Present(CurrentBooks, local[t].handle)
    /\ local' = [local EXCEPT
                    ![t].loaded_quantity =
                        load_quantities(CurrentBooks, <<local[t].handle>>, 1)[1],
                    ![t].loaded_count =
                        load_counts(CurrentBooks, <<local[t].handle>>, 1)[1]]
    /\ pc' = [pc EXCEPT ![t] = "add_store"]
    /\ UNCHANGED <<bids_, asks_, mutex_, committed, returned, adds_done, nops, lock_frame>>

\* process_quantity_updates(levels, deltas, 1): the vector adds and the store loop
add_store(t) ==
    /\ pc[t] = "add_store"
    /\ Present(CurrentBooks, local[t].handle)
    /\ LET after == store_levels(CurrentBooks, <<local[t].handle>>,
                        add_deltas(<<local[t].loaded_quantity>>,
                                   <<ToInt32(local[t].quantity)>>),
                        add_ones(<<local[t].loaded_count>>), 1, 1)
       IN /\ bids_' = after.bids
          /\ asks_' = after.asks
    /\ pc' = [pc EXCEPT ![t] = "add_unlock"]
    /\ UNCHANGED <<mutex_, local, committed, returned, adds_done, nops, lock_frame>>

\* the lock goes out of scope; add_limit_order returns true
add_unlock(t) ==
    /\ pc[t] = "add_unlock"
    /\ mutex_' = unlock(mutex_, t)
    /\ committed' = CurrentBooks
    /\ returned' = [NoReturn EXCEPT !.op = "add_limit_order",
                                    !.side = local[t].side, !.price = local[t].price,
                                    !.quantity = local[t].quantity, !.ok = TRUE,
                                    !.seen = local[t].seen]
    /\ adds_done' = IF adds_done.market THEN adds_done
                    ELSE [adds_done EXCEPT
                             !.sum[local[t].side][local[t].price] = @ + local[t].quantity,
                             !.count[local[t].side][local[t].price] = @ + 1,
                             !.by_first = @ \/ t = 1,
                             !.by_other = @ \/ t # 1]
    /\ local' = [local EXCEPT ![t] = NoLocal]
    /\ pc' = [pc EXCEPT ![t] = "idle"]
    /\ UNCHANGED <<bids_, asks_, nops, lock_frame>>

\* process_market_order -> match_market_order_simd: std::unique_lock
\* lock(mutex_); remaining = order.quantity; it = book.begin()
market_lock(t, side, quantity) ==
    /\ pc[t] = "idle"
    /\ nops < MaxLockOps
    /\ can_lock(mutex_)
    /\ mutex_' = [mutex_ EXCEPT !.writers = @ \cup {t}]
    /\ local' = [local EXCEPT ![t] =
                    [NoLocal EXCEPT
                        !.op = "process_market_order", !.side = side,
                        !.quantity = quantity, !.remaining = quantity,
                        !.it = map_begin(BookOf(CurrentBooks, opposing_side(side))),
                        !.seen = committed]]
    /\ adds_done' = [NoAdds EXCEPT !.market = TRUE]
    /\ pc' = [pc EXCEPT ![t] = "market_fill"]
    /\ nops' = nops + 1
    /\ UNCHANGED <<bids_, asks_, committed, returned, lock_frame>>

\* the loop test, and the first half of the loop body: the fill at the level
\* the iterator is at.  The level is in the book whenever this step runs
\* (NoDanglingHandle).
market_fill(t) ==
    /\ pc[t] = "market_fill"
    /\ local[t].it # END => Present(CurrentBooks, IteratorHandle(t))
    /\ IF local[t].it = END \/ local[t].remaining = 0
       THEN /\ pc' = [pc EXCEPT ![t] = "market_unlock"]
            /\ UNCHANGED <<bids_, asks_, local>>
       ELSE LET h == IteratorHandle(t)
                level == Deref(CurrentBooks, h)
                matched == matched_quantity(local[t].remaining, level)
                after == IF matched > 0
                         THEN StoreLevel(CurrentBooks, h,
                                  update_quantity(level, negated_delta(matched)))
                         ELSE CurrentBooks
            IN /\ bids_' = after.bids
               /\ asks_' = after.asks
               /\ local' = [local EXCEPT
                               ![t].matches =
                                   IF matched > 0
                                   THEN Append(@, MatchResult(matched, level.price))
                                   ELSE @,
                               ![t].remaining =
                                   IF matched > 0 THEN ToUint32(@ - matched) ELSE @]
               /\ pc' = [pc EXCEPT ![t] = "market_advance"]
    /\ UNCHANGED <<mutex_, committed, returned, adds_done, nops, lock_frame>>

\* the second half of the loop body: it = book.erase(it) if the level's
\* total_quantity is 0, ++it otherwise
market_advance(t) ==
    /\ pc[t] = "market_advance"
    /\ Present(CurrentBooks, IteratorHandle(t))
    /\ LET h == IteratorHandle(t)
           book == BookOf(CurrentBooks, h[1])
           after == IF Deref(CurrentBooks, h).total_quantity = 0
                    THEN SetBook(CurrentBooks, h[1], map_erase(book, local[t].it))
                    ELSE CurrentBooks
       IN /\ bids_' = after.bids
          /\ asks_' = after.asks
          /\ local' = [local EXCEPT ![t].it = map_next(book, local[t].it)]
    /\ pc' = [pc EXCEPT ![t] = "market_fill"]
    /\ UNCHANGED <<mutex_, committed, returned, adds_done, nops, lock_frame>>

\* return matches; the lock goes out of scope
market_unlock(t) ==
    /\ pc[t] = "market_unlock"
    /\ mutex_' = unlock(mutex_, t)
    /\ committed' = CurrentBooks
    /\ returned' = [NoReturn EXCEPT !.op = "process_market_order",
                                    !.side = local[t].side,
                                    !.quantity = local[t].quantity,
                                    !.matches = local[t].matches,
                                    !.seen = local[t].seen]
    /\ local' = [local EXCEPT ![t] = NoLocal]
    /\ pc' = [pc EXCEPT ![t] = "idle"]
    /\ UNCHANGED <<bids_, asks_, adds_done, nops, lock_frame>>

\* get_best_prices: std::shared_lock lock(mutex_)
best_lock(t) ==
    /\ pc[t] = "idle"
    /\ nops < MaxLockOps
    /\ can_lock_shared(mutex_)
    /\ mutex_' = [mutex_ EXCEPT !.readers = @ \cup {t}]
    /\ local' = [local EXCEPT ![t] =
                    [NoLocal EXCEPT !.op = "get_best_prices", !.seen = committed]]
    /\ pc' = [pc EXCEPT ![t] = "best_bid"]
    /\ nops' = nops + 1
    /\ UNCHANGED <<bids_, asks_, committed, returned, adds_done, lock_frame>>

\* return {get_best_bid(), get_best_ask()}: the first element
best_bid(t) ==
    /\ pc[t] = "best_bid"
    /\ local' = [local EXCEPT ![t].best_bid = get_best_bid(bids_)]
    /\ pc' = [pc EXCEPT ![t] = "best_ask"]
    /\ UNCHANGED <<bids_, asks_, mutex_, committed, returned, adds_done, nops, lock_frame>>

\* the second element; the lock goes out of scope
best_ask(t) ==
    /\ pc[t] = "best_ask"
    /\ mutex_' = unlock(mutex_, t)
    /\ returned' = [NoReturn EXCEPT !.op = "get_best_prices",
                                    !.best = <<local[t].best_bid, get_best_ask(asks_)>>,
                                    !.seen = local[t].seen]
    /\ local' = [local EXCEPT ![t] = NoLocal]
    /\ pc' = [pc EXCEPT ![t] = "idle"]
    /\ UNCHANGED <<bids_, asks_, committed, adds_done, nops, lock_frame>>

\* get_depth: std::shared_lock lock(mutex_)
depth_lock(t, side, levels) ==
    /\ pc[t] = "idle"
    /\ nops < MaxLockOps
    /\ can_lock_shared(mutex_)
    /\ mutex_' = [mutex_ EXCEPT !.readers = @ \cup {t}]
    /\ local' = [local EXCEPT ![t] =
                    [NoLocal EXCEPT !.op = "get_depth", !.side = side,
                                    !.quantity = levels, !.seen = committed]]
    /\ pc' = [pc EXCEPT ![t] = "depth_read"]
    /\ nops' = nops + 1
    /\ UNCHANGED <<bids_, asks_, committed, returned, adds_done, lock_frame>>

\* the copy of the side book, the sort and the first levels of it; the lock
\* goes out of scope
depth_read(t) ==
    /\ pc[t] = "depth_read"
    /\ mutex_' = unlock(mutex_, t)
    /\ returned' = [NoReturn EXCEPT
                       !.op = "get_depth", !.side = local[t].side,
                       !.quantity = local[t].quantity,
                       !.depth = get_depth_result(CurrentBooks, local[t].side,
                                                  local[t].quantity),
                       !.seen = local[t].seen]
    /\ local' = [local EXCEPT ![t] = NoLocal]
    /\ pc' = [pc EXCEPT ![t] = "idle"]
    /\ UNCHANGED <<bids_, asks_, committed, adds_done, nops, lock_frame>>

LockNext ==
    \E t \in Threads :
        \/ \E side \in Side, price \in LockPrices, quantity \in LockQuantities :
               add_lock(t, side, price, quantity)
        \/ add_emplace(t)
        \/ add_load(t)
        \/ add_store(t)
        \/ add_unlock(t)
        \/ \E side \in Side, quantity \in LockQuantities : market_lock(t, side, quantity)
        \/ market_fill(t)
        \/ market_advance(t)
        \/ market_unlock(t)
        \/ best_lock(t)
        \/ best_bid(t)
        \/ best_ask(t)
        \/ \E side \in Side, levels \in LockDepthArgs : depth_lock(t, side, levels)
        \/ depth_read(t)

LockSpec == Init /\ [][LockNext]_vars

\* the pointers a writer holds point into the book: the level an add
\* emplaced, and the level the iterator of a sweep is at
NoDanglingHandle ==
    \A t \in Threads :
        /\ pc[t] \in {"add_load", "add_store"} => Present(CurrentBooks, local[t].handle)
        /\ pc[t] = "market_advance" => Present(CurrentBooks, IteratorHandle(t))
        /\ (pc[t] = "market_fill" /\ local[t].it # END)
               => Present(CurrentBooks, IteratorHandle(t))

\* a writer's steps together are the call of Spec: when a writer returns, the
\* books are what the whole call makes of the books it found, and a market
\* order returns the matches of the whole call
WriterStepsAreTheCall ==
    /\ (returned.op = "add_limit_order" /\ \A t \in Threads : pc[t] = "idle") =>
               committed = process_limit_orders_batch(returned.seen,
                               <<Order(returned.side, returned.price,
                                       returned.quantity, "LIMIT")>>)
    /\ returned.op = "process_market_order" =>
           LET whole == match_market_order_simd(returned.seen,
                            Order(returned.side, 0, returned.quantity, "MARKET"))
           IN /\ returned.matches = whole.matches
              /\ (\A t \in Threads : pc[t] = "idle") => committed = whole.books

\* ================================================================ claims
RECURSIVE SumOver(_, _)
SumOver(book, keys) ==
    IF keys = {} THEN 0
    ELSE LET p == CHOOSE k \in keys : TRUE
         IN book[p].total_quantity + SumOver(book, keys \ {p})

\* the sum of total_quantity over all levels of a side book
TotalQuantity(book) == SumOver(book, DOMAIN book)

\* a level of `before` that lost quantity: gone from `after`, or smaller in it
Reduced(before, after, p) ==
    /\ p \in DOMAIN before
    /\ before[p].total_quantity > 0
    /\ (p \notin DOMAIN after \/ after[p].total_quantity < before[p].total_quantity)

IsMarket(side) == last.op = "process_market_order" /\ last.side = side

\* C1: process_market_order(Sell, q, id) consumes bids highest price first: on
\* a book with two or more bid levels the fills are in strictly decreasing
\* price order starting at the maximum bid price, and a bid level is reduced
\* only if every higher bid level was drained and erased by the same call.
C1_SellHighestBidFirst ==
    (IsMarket(SELL) /\ Cardinality(DOMAIN pre.bids) >= 2) =>
        /\ \A i \in 1..(Len(last.matches) - 1) :
               last.matches[i].price > last.matches[i + 1].price
        /\ (last.matches # <<>> =>
               \A p \in DOMAIN pre.bids : p <= last.matches[1].price)
        /\ \A p \in DOMAIN pre.bids :
               Reduced(pre.bids, bids_, p) =>
                   \A h \in DOMAIN pre.bids : h > p => h \notin DOMAIN bids_

\* C2: process_market_order(Buy, q, id) consumes asks cheapest first: the fills
\* are in strictly increasing price order starting at the minimum ask price,
\* every fill but possibly the last equals the whole total_quantity its level
\* had before the call, and an ask level is reduced only if every cheaper ask
\* level was drained by the same call.
C2_BuyCheapestAskFirst ==
    IsMarket(BUY) =>
        /\ \A i \in 1..(Len(last.matches) - 1) :
               last.matches[i].price < last.matches[i + 1].price
        /\ (last.matches # <<>> =>
               \A p \in DOMAIN pre.asks : last.matches[1].price <= p)
        /\ \A i \in 1..(Len(last.matches) - 1) :
               /\ last.matches[i].price \in DOMAIN pre.asks
               /\ last.matches[i].quantity =
                      pre.asks[last.matches[i].price].total_quantity
        /\ \A p \in DOMAIN pre.asks :
               Reduced(pre.asks, asks_, p) =>
                   \A c \in DOMAIN pre.asks : c < p => c \notin DOMAIN asks_

\* the part of C2 the code keeps: C2 on books whose ask levels all hold quantity
NoEmptyLevel(book) == \A p \in DOMAIN book : book[p].total_quantity > 0

C2_OnBooksWithoutEmptyLevels == NoEmptyLevel(pre.asks) => C2_BuyCheapestAskFirst

\* C3: for every process_market_order call the fill quantities sum to
\* min(requested quantity, total quantity resting on the opposing side when
\* the call started); an empty opposing side or a requested quantity of 0
\* gives an empty list.
C3_MatchSum ==
    last.op = "process_market_order" =>
        LET opposing == BookOf(pre, opposing_side(last.side))
            available == TotalQuantity(opposing)
        IN /\ SumQuantity(last.matches) =
                  (IF last.quantity <= available THEN last.quantity ELSE available)
           /\ (DOMAIN opposing = {} \/ last.quantity = 0) => last.matches = <<>>

\* C3 witness: an over-sized market order swept two levels and got less than asked
C3_Witness ==
    /\ last.op = "process_market_order"
    /\ Len(last.matches) >= 2
    /\ SumQuantity(last.matches) < last.quantity

\* C4 as stated: on each side the levels' total_quantity sums to the limit
\* quantity added to that side minus the fill quantity taken from it.
C4_ConservationExact ==
    \A s \in Side :
        TotalQuantity(BookOf(CurrentBooks, s)) = added_to[s] - matched_from[s]

\* C4 amended: the equality of C4 holds modulo 2^32 (the width of
\* total_quantity), after any sequence of adds and market orders.
C4_ConservationModulo ==
    \A s \in Side :
        TotalQuantity(BookOf(CurrentBooks, s)) % UINT32_MOD =
            (added_to[s] - matched_from[s]) % UINT32_MOD

\* C4 witness: a side that was added to and matched from, still holds a
\* level, and whose sum is no longer the plain difference (an add wrapped)
C4_Witness ==
    \E s \in Side :
        /\ matched_from[s] > 0
        /\ DOMAIN BookOf(CurrentBooks, s) # {}
        /\ TotalQuantity(BookOf(CurrentBooks, s)) # added_to[s] - matched_from[s]

\* C5: level non-emptiness: whenever no call is in progress, every level
\* present in bids or asks has total_quantity > 0.
C5_LevelNonEmpty ==
    \A s \in Side :
        \A p \in DOMAIN BookOf(CurrentBooks, s) :
            BookOf(CurrentBooks, s)[p].total_quantity > 0

\* C6: the book is never crossed at rest: after every completed call, if both
\* sides are non-empty the best bid is strictly below the best ask.
C6_NeverCrossed ==
    \A b \in DOMAIN bids_ : \A a \in DOMAIN asks_ : b < a

\* C7: the order_count of every level present equals the number of
\* add_limit_order calls made at its side and price since it was created, and
\* process_market_order leaves the order_count of every level it keeps.
C7_OrderCountIsAdds ==
    /\ \A s \in Side :
           \A p \in DOMAIN BookOf(CurrentBooks, s) :
               BookOf(CurrentBooks, s)[p].order_count = adds_at[s][p]
    /\ last.op = "process_market_order" =>
           \A s \in Side :
               \A p \in DOMAIN BookOf(CurrentBooks, s) \cap DOMAIN BookOf(pre, s) :
                   BookOf(CurrentBooks, s)[p].order_count = BookOf(pre, s)[p].order_count

\* what add_limit_order(side, p, q) must leave at the level, given the sum
\* NewTotal(T, q) of an old total T and q: a fresh level {p, q, 1} when none
\* existed, else the totals summed and one more order; the side gains no
\* other level and each level sits under its own price
AddAggregates(NewTotal(_, _), NewCount(_)) ==
    last.op = "add_limit_order" =>
        LET before == BookOf(pre, last.side)
            after == BookOf(CurrentBooks, last.side)
        IN /\ last.ok
           /\ DOMAIN after = DOMAIN before \cup {last.price}
           /\ \A p \in DOMAIN after : after[p].price = p
           /\ IF last.price \in DOMAIN before
              THEN /\ after[last.price].total_quantity =
                          NewTotal(before[last.price].total_quantity, last.quantity)
                   /\ after[last.price].order_count =
                          NewCount(before[last.price].order_count)
              ELSE /\ after[last.price].total_quantity = last.quantity
                   /\ after[last.price].order_count = 1

PlainSum(t, q) == t + q
PlainSucc(c) == c + 1
WrappedSum(t, q) == (t + q) % UINT32_MOD
WrappedSucc(c) == (c + 1) % UINT32_MOD

\* C8 as stated: add_limit_order creates the level with total_quantity = q and
\* order_count = 1 when none exists at (side, p), otherwise adds q to its
\* total_quantity and 1 to its order_count; no second level at the price.
C8_AddAggregatesExact == AddAggregates(PlainSum, PlainSucc)

\* C8 amended: as C8, with the existing level's total_quantity becoming
\* (T + q) mod 2^32 and its order_count (c + 1) mod 2^32.
C8_AddAggregatesModulo == AddAggregates(WrappedSum, WrappedSucc)

\* C8 witness: an add to an existing level whose sum passes the width
C8_Witness ==
    /\ last.op = "add_limit_order"
    /\ last.price \in DOMAIN BookOf(pre, last.side)
    /\ BookOf(pre, last.side)[last.price].total_quantity + last.quantity >= UINT32_MOD

\* C9: get_best_prices() returns (b, a) with b the maximum price among the bid
\* levels, or 0 if there is none, and a the minimum price among the ask
\* levels, or 0 if there is none.
C9_BestPrices ==
    last.op = "get_best_prices" =>
        /\ IF DOMAIN bids_ = {} THEN last.best[1] = 0
           ELSE /\ last.best[1] \in DOMAIN bids_
                /\ \A p \in DOMAIN bids_ : p <= last.best[1]
        /\ IF DOMAIN asks_ = {} THEN last.best[2] = 0
           ELSE /\ last.best[2] \in DOMAIN asks_
                /\ \A p \in DOMAIN asks_ : last.best[2] <= p

\* C9 witness: best prices read from a book with two bid levels
C9_Witness ==
    /\ last.op = "get_best_prices"
    /\ Cardinality(DOMAIN bids_) >= 2

\* C10: get_depth(side, n) returns exactly min(n, number of levels of the side)
\* aggregates; they are the best levels of the side, best first (bids strictly
\* decreasing in price, asks strictly increasing), each equal to the level's
\* current (price, total_quantity, order_count).
C10_Depth ==
    last.op = "get_depth" =>
        LET book == BookOf(CurrentBooks, last.side)
            depth == last.depth
            size == Cardinality(DOMAIN book)
            shown == {depth[i].price : i \in 1..Len(depth)}
        IN /\ Len(depth) = (IF last.quantity <= size THEN last.quantity ELSE size)
           /\ \A i \in 1..Len(depth) :
                  /\ depth[i].price \in DOMAIN book
                  /\ depth[i] = book[depth[i].price]
           /\ \A i \in 1..(Len(depth) - 1) :
                  IF last.side = BUY THEN depth[i].price > depth[i + 1].price
                  ELSE depth[i].price < depth[i + 1].price
           /\ \A p \in (DOMAIN book) \ shown :
                  \A q \in shown : IF last.side = BUY THEN q > p ELSE q < p

\* C10 witness: a bid depth cut short of the levels present
C10_Witness ==
    /\ last.op = "get_depth"
    /\ last.side = BUY
    /\ Len(last.depth) >= 1
    /\ Len(last.depth) < Cardinality(DOMAIN bids_)
\* C11: add_limit_order called with quantity 0 reports InvalidOrder by
\* returning false and leaves both side books unchanged.
C11_ZeroQuantityRejected ==
    (last.op = "add_limit_order" /\ last.quantity = 0) =>
        /\ ~last.ok
        /\ CurrentBooks = pre

\* the quantity the returned matches took at price p
RECURSIVE FillAt(_, _)
FillAt(matches, p) ==
    IF matches = <<>> THEN 0
    ELSE (IF Head(matches).price = p THEN Head(matches).quantity ELSE 0)
         + FillAt(Tail(matches), p)

OtherSide(side) == IF side = BUY THEN SELL ELSE BUY

\* C18: level lifecycle: a level leaves a side book only in a
\* process_market_order call that reduced its total_quantity to 0 (so
\* add_limit_order never removes one), and a level a market order fills only
\* in part stays at its price with total_quantity reduced by exactly the fill.
C18_LevelLifecycle ==
    /\ \A s \in Side :
           \A p \in (DOMAIN BookOf(pre, s)) \ (DOMAIN BookOf(CurrentBooks, s)) :
               /\ last.op = "process_market_order"
               /\ s = OtherSide(last.side)
               /\ BookOf(pre, s)[p].total_quantity > 0
               /\ FillAt(last.matches, p) = BookOf(pre, s)[p].total_quantity
    /\ last.op = "process_market_order" =>
           LET before == BookOf(pre, OtherSide(last.side))
               after == BookOf(CurrentBooks, OtherSide(last.side))
           IN \A p \in DOMAIN before :
                  FillAt(last.matches, p) < before[p].total_quantity =>
                      /\ p \in DOMAIN after
                      /\ after[p].price = p
                      /\ after[p].total_quantity =
                             before[p].total_quantity - FillAt(last.matches, p)

\* the part of C18 the code keeps: C18 on books none of whose levels is empty
C18_OnBooksWithoutEmptyLevels ==
    (NoEmptyLevel(pre.bids) /\ NoEmptyLevel(pre.asks)) => C18_LevelLifecycle

\* C19: frame conditions: a Buy market order leaves bids unchanged and a Sell
\* leaves asks unchanged, and no market order inserts its unfilled remainder
\* (no level appears or grows); add_limit_order leaves the opposite side and
\* every other level of its own side unchanged; get_best_prices and get_depth
\* change nothing.
C19_FrameConditions ==
    /\ IsMarket(BUY) => bids_ = pre.bids
    /\ IsMarket(SELL) => asks_ = pre.asks
    /\ last.op = "process_market_order" =>
           \A s \in Side :
               /\ DOMAIN BookOf(CurrentBooks, s) \subseteq DOMAIN BookOf(pre, s)
               /\ \A p \in DOMAIN BookOf(CurrentBooks, s) :
                      BookOf(CurrentBooks, s)[p].total_quantity
                          <= BookOf(pre, s)[p].total_quantity
    /\ last.op = "add_limit_order" =>
           /\ BookOf(CurrentBooks, OtherSide(last.side)) = BookOf(pre, OtherSide(last.side))
           /\ DOMAIN BookOf(CurrentBooks, last.side)
                  = DOMAIN BookOf(pre, last.side) \cup {last.price}
           /\ \A p \in (DOMAIN BookOf(pre, last.side)) \ {last.price} :
                  BookOf(CurrentBooks, last.side)[p] = BookOf(pre, last.side)[p]
    /\ last.op \in {"get_best_prices", "get_depth"} => CurrentBooks = pre

\* C19 witness: a market order that was filled only in part (a remainder was
\* dropped) on a book whose other side held levels too
C19_Witness ==
    /\ last.op = "process_market_order"
    /\ last.matches # <<>>
    /\ SumQuantity(last.matches) < last.quantity
    /\ DOMAIN BookOf(pre, last.side) # {}
\* the enqueued records not yet dequeued after the first n logged calls
RECURSIVE Undequeued(_, _)
Undequeued(log, n) ==
    IF n = 0 THEN 0
    ELSE Undequeued(log, n - 1)
         + (IF ~log[n].ok THEN 0
            ELSE IF log[n].op = "try_enqueue" THEN 1 ELSE -1)

\* C12: called sequentially on a ring of capacity N, try_enqueue returns true
\* exactly when fewer than N enqueued records are still undequeued (false only
\* when the ring is full); the first try_enqueue on a fresh ring returns true.
C12_EnqueueUnlessFull ==
    \A i \in 1..Len(ring_log) :
        ring_log[i].op = "try_enqueue" =>
            (ring_log[i].ok <=> Undequeued(ring_log, i - 1) < N)
\* the pairs (levels[i], deltas[i]), i = from..count, applied one after another
RECURSIVE apply_pairs(_, _, _, _, _)
apply_pairs(books, levels, deltas, from, count) ==
    IF from > count THEN books
    ELSE IF levels[from] = NULL
         THEN apply_pairs(books, levels, deltas, from + 1, count)
         ELSE apply_pairs(
                  StoreLevel(books, levels[from],
                      [Deref(books, levels[from]) EXCEPT
                          !.total_quantity = (@ + deltas[from]) % UINT32_MOD,
                          !.order_count = (@ + 1) % UINT32_MOD]),
                  levels, deltas, from + 1, count)

\* the orders added one by one, each as a batch of its own
RECURSIVE add_one_by_one(_, _)
add_one_by_one(books, orders) ==
    IF orders = <<>> THEN books
    ELSE add_one_by_one(process_limit_orders_batch(books, <<Head(orders)>>),
                        Tail(orders))

\* C17: the batch quantity updater is pointwise: for every batch of up to
\* four (level handle, delta) pairs, with or without a level named by several
\* pairs, the outcome is that of applying the pairs one after another (null
\* handles being no-ops, lanes at or above count untouched); and
\* process_limit_orders_batch on a list equals adding its orders one by one.
C17_BatchPointwise ==
    batch.done =>
        /\ batch.call = "process_quantity_updates" =>
               batch.books = apply_pairs(BatchBooks, batch.levels, batch.deltas,
                                         1, batch.count)
        /\ batch.call = "process_limit_orders_batch" =>
               batch.books = add_one_by_one(Books(EmptyMap, EmptyMap), batch.orders)

\* no level is named by two of the first count pairs / by two orders of a flush
NoDuplicateHandle ==
    /\ \A i, j \in 1..batch.count :
           (i # j /\ batch.levels[i] # NULL) => batch.levels[i] # batch.levels[j]
    /\ \A i, j \in 1..Len(batch.orders) :
           (i # j /\ (i - 1) \div SIMD_WIDTH = (j - 1) \div SIMD_WIDTH)
               => batch.orders[i].price # batch.orders[j].price

\* the part of C17 the code keeps: C17 on batches that name no level twice
C17_WithoutDuplicates == NoDuplicateHandle => C17_BatchPointwise
\* C20: the engine's ring has capacity N = MAX_ORDERS, a power of two, so the
\* slot index ticket & (N - 1) that try_enqueue and try_dequeue use equals
\* ticket mod N (every slot is addressable, and two tickets share a slot only
\* if they differ by a multiple of N).
C20_IndexIsTicketModN ==
    slot.done => slot.index = slot.ticket % MAX_ORDERS
\* the threads inside a writer's or a reader's critical section
Writing == {t \in Threads : pc[t] \in {"add_emplace", "add_load", "add_store",
                                       "add_unlock", "market_fill",
                                       "market_advance", "market_unlock"}}

Reading == {t \in Threads : pc[t] \in {"best_bid", "best_ask", "depth_read"}}

\* C15: reader consistency: a get_best_prices or get_depth call running
\* beside add_limit_order and process_market_order calls returns what the
\* sequential function gives on a book state that existed between two whole
\* writer operations (the books as the last writer left them, seen when the
\* reader took the lock); while a reader reads, the books are in that state
\* and no writer is part-way through a call, so no sweep is half done and no
\* level reduced to 0 waits to be erased.
C15_ReaderConsistency ==
    /\ returned.op = "get_best_prices" =>
           returned.best = get_best_prices_result(returned.seen)
    /\ returned.op = "get_depth" =>
           returned.depth = get_depth_result(returned.seen, returned.side,
                                             returned.quantity)
    /\ \A t \in Reading :
           /\ Writing = {}
           /\ local[t].seen = committed
           /\ CurrentBooks = committed

\* C15 witness: a reader is part-way through get_best_prices and the call
\* that returned last is a market order that filled at a level and left a
\* level in the book
C15_Witness ==
    /\ returned.op = "process_market_order"
    /\ returned.matches # <<>>
    /\ DOMAIN bids_ \cup DOMAIN asks_ # {}
    /\ \E t \in Reading : pc[t] = "best_ask"

AllIdle == \A t \in Threads : pc[t] = "idle"

\* the levels of the books are the adds recorded in adds_done, with totals
\* Total(sum) and counts Count(number)
AddsAccounted(Total(_), Count(_)) ==
    \A s \in Side : \A p \in LockPrices :
        IF adds_done.count[s][p] = 0
        THEN p \notin DOMAIN BookOf(CurrentBooks, s)
        ELSE /\ p \in DOMAIN BookOf(CurrentBooks, s)
             /\ BookOf(CurrentBooks, s)[p].total_quantity = Total(adds_done.sum[s][p])
             /\ BookOf(CurrentBooks, s)[p].order_count = Count(adds_done.count[s][p])

Exactly(n) == n

Modulo32(n) == n % UINT32_MOD

\* C16 as stated: concurrent add_limit_order calls lose no update: every call
\* returns true, and once all calls have completed each level's
\* total_quantity is the sum of the quantities added at its side and price
\* and its order_count their number.
C16_NoLostUpdateExact ==
    /\ returned.op = "add_limit_order" => returned.ok
    /\ (AllIdle /\ ~adds_done.market) => AddsAccounted(Exactly, Exactly)

\* C16 amended: the same with the sum and the number taken modulo 2^32
C16_NoLostUpdateModulo ==
    /\ returned.op = "add_limit_order" => returned.ok
    /\ (AllIdle /\ ~adds_done.market) => AddsAccounted(Modulo32, Modulo32)

\* C16 witness: all calls have completed, adds of two different threads
\* among them, and some level was added to more than once
C16_Witness ==
    /\ AllIdle
    /\ ~adds_done.market
    /\ adds_done.by_first /\ adds_done.by_other
    /\ \E s \in Side, p \in LockPrices : adds_done.count[s][p] > 1
\* C22: the 0 sentinel is unambiguous: price 0 is never a resting price in
\* either side book, so get_best_prices returns 0 for a side if and only if
\* that side has no levels.
C22_ZeroMeansNoLevels ==
    /\ 0 \notin DOMAIN bids_
    /\ 0 \notin DOMAIN asks_
    /\ last.op = "get_best_prices" =>
           /\ last.best[1] = 0 <=> DOMAIN bids_ = {}
           /\ last.best[2] = 0 <=> DOMAIN asks_ = {}

\* what get_best_prices itself does with the sentinel: a side is reported as
\* 0 exactly when it has no level or its best price is 0
C22_ZeroOnlyFromPriceZero ==
    last.op = "get_best_prices" =>
        /\ last.best[1] = 0 <=> (DOMAIN bids_ = {} \/ DOMAIN bids_ = {0})
        /\ last.best[2] = 0 <=> (DOMAIN asks_ = {} \/ 0 \in DOMAIN asks_)
\* the total_quantity of the drawn level before and after the call of
\* ArithSpec (0 before when there was no level), and the fill the call made
ArithBefore ==
    IF ArithPrice \in DOMAIN batch.before.bids
    THEN batch.before.bids[ArithPrice].total_quantity ELSE 0

ArithFilled == SumQuantity(batch.matches)

\* C23 for fills other than Excluded: add_limit_order with quantity q on a
\* level holding T leaves the level in the book with total_quantity
\* (T + q) mod 2^32; a market fill of m <= T leaves T - m exactly (a level
\* the call erased counts as left at 0)
ModularArithmetic(Excluded) ==
    batch.done =>
        /\ batch.call = "add_limit_order" =>
               /\ ArithPrice \in DOMAIN batch.books.bids
               /\ batch.books.bids[ArithPrice].total_quantity
                      = (ArithBefore + batch.orders[1].quantity) % UINT32_MOD
        /\ (batch.call = "process_market_order" /\ ArithFilled \notin Excluded) =>
               /\ ArithFilled = std_min(batch.orders[1].quantity, ArithBefore)
               /\ ArithFilled <= ArithBefore
               /\ IF ArithPrice \in DOMAIN batch.books.bids
                  THEN batch.books.bids[ArithPrice].total_quantity
                           = ArithBefore - ArithFilled
                  ELSE ArithBefore - ArithFilled = 0

\* C23: level quantity arithmetic is unchecked 32-bit modular arithmetic:
\* add_limit_order with quantity q on a level holding T sets total_quantity
\* to (T + q) mod 2^32 with no rejection or saturation, also for q >= 2^31,
\* and a market fill of m <= T sets it to T - m exactly, never below 0 and
\* never wrapping.
C23_ModularArithmetic == ModularArithmetic({})

\* the part of C23 the code keeps: C23 for every add and for every fill
\* other than one of exactly 2^31
C23_AwayFromSignBit == ModularArithmetic({INT32_SIGN})
\* the threads between a won compare_exchange_strong and their sequence store
Claimed(t) == ring_pc[t] \in {"enq_data", "enq_publish", "deq_data", "deq_release"}

\* C21: ring slot ownership: under any interleaving of producers and
\* consumers at most one thread is between its successful head/tail CAS and
\* its sequence store for a given slot.
C21_SlotOwnership ==
    \A t, u \in Threads :
        (t # u /\ Claimed(t) /\ Claimed(u)) =>
            BitAnd(ring_local[t].ticket, BUFFER_MASK(N))
                # BitAnd(ring_local[u].ticket, BUFFER_MASK(N))

\* the case of C21: some thread holds a slot it claimed
C21_SomeSlotClaimed == \E t \in Threads : Claimed(t)
====
